---- MODULE Spec2Model ----
(***************************************************************************)
(* Price tracker (Newegg): the history file written by                     *)
(* scraper_newegg_tracker_commented.py and the analytics of analysis.py.   *)
(*                                                                         *)
(* A table (pandas DataFrame) is a sequence of rows; a row is a record of  *)
(* the columns the code reads.  Missing values (Python None, NaN, NaT and  *)
(* pandas <NA>, which pandas treats alike when it compares, groups and     *)
(* writes them) are NA for text columns and NaN for numeric columns.       *)
(***************************************************************************)
EXTENDS Integers, Sequences, FiniteSets, TLC

VARIABLES
    file,       \* prices_history.csv: the rows of text the file holds
    df_hist,    \* the history the last save_history_append loaded
    df_new,     \* the batch last passed to save_history_append
    df_out,     \* the frame the last save_history_append returned
    last_op,    \* the operation that made the last step
    csv,        \* analysis: the history file given to analysis.py
    df,         \* analysis: the frame load_and_clean returned
    d,          \* analysis: the frame filter_df returned
    query,      \* analysis: the arguments of the run (category, start, end, top)
    outcome,    \* analysis: the error filter_df raised, if any
    daily,      \* analysis: the frame compute_daily_stats returned
    drops,      \* analysis: the frame compute_top_drops returned
    calls,      \* concurrent saves: each invocation's position and local frames
    prior       \* concurrent saves: the history file before the invocations

vars == <<file, df_hist, df_new, df_out, last_op,
          csv, df, d, query, outcome, daily, drops, calls, prior>>

analysisVars == <<csv, df, d, query, outcome, daily, drops>>

concurrentVars == <<calls, prior>>

----------------------------------------------------------------------------
(* Bounds of the model *)

MaxRows == 3        \* rows of the loaded history and the scraped batch together
MaxClock == 2       \* distinct seconds the wall clock can show

----------------------------------------------------------------------------
(* Values *)

\* A missing text value: None in a scraped row, NaN after read_csv.
NA == "<NA>"

\* A missing numeric value (None from parse_price_float, NaN in a frame).
NaN == -1000

\* href attributes of the a.item-title tag of an item cell; NoHref stands for
\* an item cell without the tag or without the attribute.
NoHref == "<no href>"
HrefValues == {NoHref, " ", " u1 "}

\* str.strip() on the texts of the model.
Strip(s) ==
    CASE s = " " -> ""
      [] s = " u1 " -> "u1"
      [] s = " u2 " -> "u2"
      [] s = " SSD " -> "SSD"
      [] OTHER -> s

\* Prices parse_price_float can return: a float, or None.
ScrapedPrices == {NaN, 10}

\* now_iso(): the wall clock in UTC, to the second.  Nothing makes two reads
\* of the wall clock differ or increase.
ScrapeTimes == 1..MaxClock

\* The categories of BASE_URLS a run tracks (CATEGORY_TO_TRACK).
Targets == {"GPU"}

Item == [href : HrefValues, price : ScrapedPrices]

RECURSIVE SeqsUpTo(_, _)
SeqsUpTo(S, n) ==
    IF n <= 0 THEN {<<>>}
    ELSE LET shorter == SeqsUpTo(S, n - 1)
         IN  shorter \cup {Append(s, x) : s \in {t \in shorter : Len(t) = n - 1}, x \in S}

Range(s) == {s[i] : i \in 1..Len(s)}

\* The rows of df at the positions of S, in the order of df.
Pick(frame, S) ==
    LET F[i \in 0..Len(frame)] ==
            IF i = 0 THEN <<>>
            ELSE IF i \in S THEN Append(F[i - 1], frame[i]) ELSE F[i - 1]
    IN  F[Len(frame)]

----------------------------------------------------------------------------
(* scraper_newegg_tracker_commented.py *)

\* One item cell of a page becomes one row; the URL is the stripped href,
\* or None when the title tag or its href is absent.
ScrapeRow(category, scrape_dt, item) ==
    [category |-> category,
     scrape_datetime_utc |-> scrape_dt,
     product_url |-> IF item.href = NoHref THEN NA ELSE Strip(item.href),
     price_value |-> item.price]

\* scrape_category: every item cell of every page gives a row with the
\* one scrape_dt of the call; no row is left out.
scrape_category(category, scrape_dt, items) ==
    [i \in 1..Len(items) |-> ScrapeRow(category, scrape_dt, items[i])]

\* DataFrame.to_csv then the file: a missing value and an empty string are
\* both written as an empty field.
CsvText(v) == IF v = NA THEN "" ELSE v

to_csv(frame) ==
    [i \in 1..Len(frame) |-> [frame[i] EXCEPT !.product_url = CsvText(@)]]

\* pd.read_csv: an empty field is read as NaN.
CsvValue(t) == IF t = "" THEN NA ELSE t

read_csv(text) ==
    [i \in 1..Len(text) |-> [text[i] EXCEPT !.product_url = CsvValue(@)]]

\* load_history: the frame of the file, empty when the file does not exist.
load_history(f) == read_csv(f)

\* The composite key drop_duplicates compares.
Key(r) == <<r.product_url, r.scrape_datetime_utc>>

\* drop_duplicates(subset=[product_url, scrape_datetime_utc], keep="first")
DropDuplicatesKeepFirst(frame) ==
    Pick(frame, {i \in 1..Len(frame) :
                    \A j \in 1..(i - 1) : Key(frame[j]) # Key(frame[i])})

\* drop_duplicates(subset=[product_url, scrape_datetime_utc], keep="last"):
\* a row stays when no later row has its key; the rows keep their order.
DropDuplicatesKeepLast(frame) ==
    Pick(frame, {i \in 1..Len(frame) :
                    \A j \in (i + 1)..Len(frame) : Key(frame[j]) # Key(frame[i])})

\* A save that writes the batch alone and forgets the loaded history.
MergeBatchOnly(hist, batch) == DropDuplicatesKeepLast(batch)

\* The frame save_history_append builds from the loaded history and df_new.
Merge(hist, batch) ==
    LET concat == IF hist = <<>> THEN batch ELSE hist \o batch
    IN  DropDuplicatesKeepLast(concat)

\* save_history_append(csv_path, df_new): the frame it returns.
save_history_append(f, batch) == Merge(load_history(f), batch)

----------------------------------------------------------------------------
(* The tracker: runs of the script on one history file *)

AnalysisIdle ==
    /\ csv = <<>> /\ df = <<>> /\ d = <<>> /\ daily = <<>> /\ drops = <<>>
    /\ query = [category |-> "", start |-> -1, end |-> -1, top |-> 0]
    /\ outcome = [raised |-> "", categories |-> <<>>]

\* No concurrent invocation of save_history_append.
NoCalls == calls = <<>> /\ prior = <<>>

InitTracker ==
    /\ NoCalls
    /\ file = <<>>
    /\ df_hist = <<>>
    /\ df_new = <<>>
    /\ df_out = <<>>
    /\ last_op = "init"
    /\ AnalysisIdle

\* One run of the script (__main__): scrape the tracked category, stop when
\* nothing was scraped, else append the batch to the history file.
Main ==
    /\ \E category \in Targets, scrape_dt \in ScrapeTimes,
          items \in SeqsUpTo(Item, MaxRows - Len(file)) :
         LET all_rows == scrape_category(category, scrape_dt, items)
             out == save_history_append(file, all_rows)
         IN  /\ all_rows # <<>>
             /\ df_hist' = load_history(file)
             /\ df_new' = all_rows
             /\ df_out' = out
             /\ file' = to_csv(out)
    /\ last_op' = "main"
    /\ UNCHANGED <<analysisVars, concurrentVars>>

\* save_history_append called again with the same df_new on the same file.
SaveAgain ==
    /\ last_op \in {"main", "again"}
    /\ LET out == save_history_append(file, df_new)
       IN  /\ df_hist' = load_history(file)
           /\ df_out' = out
           /\ file' = to_csv(out)
    /\ last_op' = "again"
    /\ UNCHANGED <<df_new, analysisVars, concurrentVars>>

NextTracker == Main \/ SaveAgain

Spec == InitTracker /\ [][NextTracker]_vars

----------------------------------------------------------------------------
(* Two invocations of save_history_append on one history file.  An         *)
(* invocation reads the file (load_history), builds df_out in its own      *)
(* memory and writes the file (to_csv); nothing in the script keeps the    *)
(* other invocation from running between its read and its write.           *)

MaxBatch == 1       \* rows of the batch of one invocation

Invocations == {1, 2}

\* History files an earlier run of the script can have left: none, or the
\* file with the one row it scraped.
PriorFiles ==
    {<<>>} \cup {to_csv(scrape_category(category, 1, <<item>>)) :
                     category \in Targets, item \in Item}

NotCalled ==
    [pc |-> "start", df_new |-> <<>>, df_hist |-> <<>>, df_out |-> <<>>,
     loaded_after |-> 0, saved_after |-> 0]

\* The invocations that have written the file.
Returned == {p \in Invocations : calls[p].pc = "returned"}

InitConcurrent ==
    /\ prior \in PriorFiles
    /\ file = prior
    /\ calls = [p \in Invocations |-> NotCalled]
    /\ df_hist = <<>> /\ df_new = <<>> /\ df_out = <<>>
    /\ last_op = "init"
    /\ AnalysisIdle

\* save_history_append is called with the batch a run has scraped and
\* reads the file: df_hist = load_history(csv_path).
Load(p) ==
    /\ calls[p].pc = "start"
    /\ \E category \in Targets, scrape_dt \in ScrapeTimes,
          items \in SeqsUpTo(Item, MaxBatch) :
         LET all_rows == scrape_category(category, scrape_dt, items)
         IN  /\ all_rows # <<>>
             /\ calls' = [calls EXCEPT ![p] =
                              [@ EXCEPT !.pc = "loaded",
                                        !.df_new = all_rows,
                                        !.df_hist = load_history(file),
                                        !.loaded_after = Cardinality(Returned)]]
    /\ last_op' = "load"
    /\ UNCHANGED <<file, prior, df_hist, df_new, df_out, analysisVars>>

\* The invocation merges what it loaded with its batch, writes the file
\* (df_out.to_csv) and returns.
Persist(p) ==
    /\ calls[p].pc = "loaded"
    /\ LET out == Merge(calls[p].df_hist, calls[p].df_new)
       IN  /\ file' = to_csv(out)
           /\ calls' = [calls EXCEPT ![p] =
                            [@ EXCEPT !.pc = "returned",
                                      !.df_out = out,
                                      !.saved_after = Cardinality(Returned)]]
    /\ last_op' = "persist"
    /\ UNCHANGED <<prior, df_hist, df_new, df_out, analysisVars>>

NextConcurrent == \E p \in Invocations : Load(p) \/ Persist(p)

SpecConcurrent == InitConcurrent /\ [][NextConcurrent]_vars

Saved == last_op \in {"main", "again"}

\* The positions of the rows of a frame that carry key k.
Rows(frame, k) == {i \in 1..Len(frame) : Key(frame[i]) = k}

Max(S) == CHOOSE x \in S : \A y \in S : y <= x

\* C1: merging the batch a second time into the history the first merge
\* wrote gives the same set of rows as the first merge gave.
C1_MergeIdempotent ==
    Saved => Range(save_history_append(file, df_new)) = Range(df_out)

\* C2: no two rows of the persisted history have the same
\* (product_url, scrape_datetime_utc) pair.
C2_KeyUnique ==
    \A i, j \in 1..Len(file) : i # j => Key(file[i]) # Key(file[j])

\* C3: every key of the loaded history or of the batch is the key of
\* exactly one row of the merged frame, and that row is the last row with
\* the key in the concatenation history ++ batch.
C3_LastWriteWins ==
    Saved =>
        LET concat == df_hist \o df_new
        IN  \A k \in {Key(r) : r \in Range(concat)} :
                /\ Cardinality(Rows(df_out, k)) = 1
                /\ \A i \in Rows(df_out, k) :
                        df_out[i] = concat[Max(Rows(concat, k))]

\* A batch row has replaced a history row of the same key and another price,
\* and a history row of another key was kept.
C3_Witness ==
    /\ Saved
    /\ \E i \in 1..Len(df_hist), j \in 1..Len(df_new) :
            /\ Key(df_hist[i]) = Key(df_new[j])
            /\ df_hist[i].price_value # df_new[j].price_value
            /\ df_new[j] \in Range(df_out)
    /\ \E i \in 1..Len(df_hist) :
            /\ \A j \in 1..Len(df_new) : Key(df_hist[i]) # Key(df_new[j])
            /\ df_hist[i] \in Range(df_out)

\* C4: every row of the persisted history has a non-empty product_url (and
\* the timestamp now_iso wrote, which always parses).
C4_NoUrlLessRow ==
    \A i \in 1..Len(file) :
        /\ file[i].product_url # ""
        /\ file[i].scrape_datetime_utc \in ScrapeTimes

----------------------------------------------------------------------------
(* analysis.py: values *)

MaxTs == 3          \* instants a history file given to analysis.py can hold
SlotsPerDay == 2    \* instants of the model that fall on one calendar day
MaxCsvRows == 2     \* rows of a history file with unusable values

\* NaT: what pd.to_datetime(..., errors="coerce") gives for a text that is
\* no date, and the scrape_date of such a row.
NaT == -1

\* A timestamp text that is no date.
BadTs == -2

\* A price text that is no number.
BadNum == -2000

\* No --start / --end argument (None).
NoDate == -1

\* The order Python gives the texts of the model (sorted(), sort_values).
TextOrder == <<"", "GPU", "Monitor", "SSD", "u1", "u2">>
Rank(t) == CHOOSE i \in 1..Len(TextOrder) : TextOrder[i] = t

Min(S) == CHOOSE x \in S : \A y \in S : x <= y

RECURSIVE GCD(_, _)
GCD(a, b) == IF b = 0 THEN a ELSE GCD(b, a % b)

\* The quotient n / q of two floats as an exact fraction in lowest terms;
\* q = 0 gives the non-finite result of the float division.
Rat(n, q) ==
    IF q = 0 THEN [num |-> IF n > 0 THEN 1 ELSE IF n < 0 THEN -1 ELSE 0, den |-> 0]
    ELSE LET sgn == IF q < 0 THEN -1 ELSE 1
             an == IF n < 0 THEN -n ELSE n
             g == GCD(an, sgn * q)
         IN  [num |-> (sgn * n) \div g, den |-> (sgn * q) \div g]

RNaN == [num |-> 0, den |-> 0]
RIsNaN(a) == a.num = 0 /\ a.den = 0
RFinite(a) == a.den > 0
RAdd(a, b) == Rat(a.num * b.den + b.num * a.den, a.den * b.den)
RDiv(a, n) == Rat(a.num, a.den * n)
\* a < b on fractions; a non-finite positive value is above every finite one.
RLess(a, b) ==
    IF a.den = 0 THEN a.num < 0 /\ (b.den > 0 \/ b.num > 0)
    ELSE IF b.den = 0 THEN b.num > 0
    ELSE a.num * b.den < b.num * a.den

RECURSIVE SumSeq(_)
SumSeq(s) == IF s = <<>> THEN 0 ELSE Head(s) + SumSeq(Tail(s))

RECURSIVE RSumSeq(_)
RSumSeq(s) == IF s = <<>> THEN Rat(0, 1) ELSE RAdd(Head(s), RSumSeq(Tail(s)))

RECURSIVE SortedSeq(_)
SortedSeq(S) == IF S = {} THEN <<>> ELSE <<Min(S)>> \o SortedSeq(S \ {Min(S)})

\* A stable sort of numbers: x goes after every value not greater than it.
InsertInt(s, x) ==
    LET p == Cardinality({j \in 1..Len(s) : s[j] <= x})
    IN  SubSeq(s, 1, p) \o <<x>> \o SubSeq(s, p + 1, Len(s))

SortInts(values) ==
    LET F[i \in 0..Len(values)] ==
            IF i = 0 THEN <<>> ELSE InsertInt(F[i - 1], values[i])
    IN  F[Len(values)]

----------------------------------------------------------------------------
(* analysis.py: load_and_clean *)

\* pd.to_datetime(errors="coerce", utc=True): the instant of a date text,
\* NaT for an empty field or a text that is no date.
ToDatetime(raw) == IF raw >= 0 THEN raw ELSE NaT

\* .dt.date: the calendar day (UTC) of an instant.
DateOf(t) == IF t = NaT THEN NaT ELSE t \div SlotsPerDay

\* pd.to_numeric(errors="coerce"): the number, NaN for a text that is none.
ToNumeric(raw) == IF raw = BadNum THEN NaN ELSE raw

\* .astype("string").fillna("").str.strip()
CleanText(v) == IF v = NA THEN "" ELSE Strip(v)

\* A has_price that lets a price of zero through.
HasPriceOrZero(price) == price # NaN /\ price >= 0

\* df["price_value"].notna() & (df["price_value"] > 0)
HasPrice(price) == price # NaN /\ price > 0

\* df["product_url"].str.len() > 0
HasUrl(url) == url # ""

\* The columns load_and_clean converts and derives, for one row.
CleanRow(r) ==
    LET t == ToDatetime(r.scrape_datetime_utc)
        price == ToNumeric(r.price_value)
        url == CleanText(r.product_url)
    IN  [category |-> CleanText(r.category),
         scrape_datetime_utc |-> t,
         scrape_date |-> DateOf(t),
         product_url |-> url,
         price_value |-> price,
         has_url |-> HasUrl(url),
         has_price |-> HasPrice(price)]

\* dropna(subset=[scrape_datetime_utc, scrape_date]), df[has_url], df[has_price]
Usable(r) ==
    /\ r.scrape_datetime_utc # NaT /\ r.scrape_date # NaT
    /\ r.has_url
    /\ r.has_price

\* sort_values(["product_url", "scrape_datetime_utc"])
UrlThenTime(a, b) ==
    \/ Rank(a.product_url) < Rank(b.product_url)
    \/ /\ a.product_url = b.product_url
       /\ a.scrape_datetime_utc < b.scrape_datetime_utc

\* The sort is stable: a row goes after every row that is not after it.
InsertRow(s, x) ==
    LET p == Cardinality({j \in 1..Len(s) : ~UrlThenTime(x, s[j])})
    IN  SubSeq(s, 1, p) \o <<x>> \o SubSeq(s, p + 1, Len(s))

SortRows(frame) ==
    LET F[i \in 0..Len(frame)] ==
            IF i = 0 THEN <<>> ELSE InsertRow(F[i - 1], frame[i])
    IN  F[Len(frame)]

load_and_clean(text) ==
    LET raw == read_csv(text)
        typed == [i \in 1..Len(raw) |-> CleanRow(raw[i])]
        kept == Pick(typed, {i \in 1..Len(typed) : Usable(typed[i])})
    IN  DropDuplicatesKeepLast(SortRows(kept))

----------------------------------------------------------------------------
(* analysis.py: filter_df *)

\* available_categories: the non-empty categories of the frame, sorted.
available_categories(frame) ==
    LET cats == {r.category : r \in Range(frame)} \ {""}
        ranks == SortedSeq({Rank(c) : c \in cats})
    IN  [i \in 1..Len(ranks) |-> TextOrder[ranks[i]]]

InCategory(frame, category) ==
    Pick(frame, {i \in 1..Len(frame) : frame[i].category = category})

InWindow(frame, start, end) ==
    Pick(frame, {i \in 1..Len(frame) :
                    /\ start # NoDate => frame[i].scrape_date >= start
                    /\ end # NoDate => frame[i].scrape_date <= end})

\* The two errors of filter_df: both are raised as ValueError and differ by
\* their message.
UnknownCategory == "ValueError: Aucune donnee pour la categorie"
EmptyResultSet == "ValueError: Aucune donnee apres filtrage par dates"

\* A filter_df with one emptiness check, after both filters.
filter_dfOneCheck(frame, category, start, end) ==
    LET byDate == InWindow(InCategory(frame, category), start, end)
    IN  IF byDate = <<>>
        THEN [raised |-> UnknownCategory,
              categories |-> available_categories(frame), d |-> <<>>]
        ELSE [raised |-> "", categories |-> <<>>, d |-> byDate]

\* filter_df: the frame it returns, or the error it raises (the first with
\* the list of the categories of the frame).
filter_df(frame, category, start, end) ==
    LET byCat == InCategory(frame, category)
        byDate == InWindow(byCat, start, end)
    IN  IF byCat = <<>>
        THEN [raised |-> UnknownCategory,
              categories |-> available_categories(frame), d |-> <<>>]
        ELSE IF byDate = <<>>
        THEN [raised |-> EmptyResultSet, categories |-> <<>>, d |-> <<>>]
        ELSE [raised |-> "", categories |-> <<>>, d |-> byDate]

----------------------------------------------------------------------------
(* analysis.py: compute_daily_stats *)

Window == 7         \* rolling(window=7, ...)
MinPeriods == 1     \* rolling(..., min_periods=1)

\* The values of a column that are not missing, in the order of the frame.
NotNull(values) == Pick(values, {i \in 1..Len(values) : values[i] # NaN})

\* "mean": the sum over the count of the values that are not missing.
Mean(values) ==
    LET v == NotNull(values)
    IN  IF v = <<>> THEN RNaN ELSE Rat(SumSeq(v), Len(v))

\* "median": the middle value, or the mean of the two middle values.
Median(values) ==
    LET v == SortInts(NotNull(values))
        n == Len(v)
    IN  IF n = 0 THEN RNaN
        ELSE IF n % 2 = 1 THEN Rat(v[(n + 1) \div 2], 1)
        ELSE Rat(v[n \div 2] + v[n \div 2 + 1], 2)

\* The rows of one group of groupby("scrape_date").
OnDay(frame, day) == Pick(frame, {i \in 1..Len(frame) : frame[i].scrape_date = day})

\* Aggregates that count the rows of the group as its products.
DayStatCountRows(frame, day) ==
    LET rows == OnDay(frame, day)
        prices == [i \in 1..Len(rows) |-> rows[i].price_value]
        v == NotNull(prices)
    IN  [scrape_date |-> day,
         avg_price |-> Mean(prices),
         median_price |-> Median(prices),
         min_price |-> IF v = <<>> THEN NaN ELSE Min(Range(v)),
         max_price |-> IF v = <<>> THEN NaN ELSE Max(Range(v)),
         products_count |-> Len(rows),
         observations |-> Len(v)]

\* The aggregates of one group.
DayStat(frame, day) ==
    LET rows == OnDay(frame, day)
        prices == [i \in 1..Len(rows) |-> rows[i].price_value]
        v == NotNull(prices)
    IN  [scrape_date |-> day,
         avg_price |-> Mean(prices),
         median_price |-> Median(prices),
         min_price |-> IF v = <<>> THEN NaN ELSE Min(Range(v)),
         max_price |-> IF v = <<>> THEN NaN ELSE Max(Range(v)),
         products_count |-> Cardinality({r.product_url : r \in Range(rows)} \ {NA}),
         observations |-> Len(v)]

\* A rolling mean that waits for a full window (min_periods = window).
RollingMeanFullWindow(values, i) ==
    LET lo == IF i - Window + 1 < 1 THEN 1 ELSE i - Window + 1
        win == Pick(values, {j \in lo..i : ~RIsNaN(values[j])})
    IN  IF Len(win) < Window THEN RNaN ELSE RDiv(RSumSeq(win), Len(win))

\* rolling(window=7, min_periods=1).mean() at entry i of a column: the mean
\* of the entries of the window that are not NaN, when there is at least one.
RollingMean(values, i) ==
    LET lo == IF i - Window + 1 < 1 THEN 1 ELSE i - Window + 1
        win == Pick(values, {j \in lo..i : ~RIsNaN(values[j])})
    IN  IF Len(win) < MinPeriods THEN RNaN ELSE RDiv(RSumSeq(win), Len(win))

\* compute_daily_stats: one row per day of the frame, ascending, then the
\* rolling mean of avg_price.
compute_daily_stats(frame) ==
    LET days == SortedSeq({r.scrape_date : r \in Range(frame)} \ {NaT})
        stats == [i \in 1..Len(days) |-> DayStat(frame, days[i])]
        avgs == [i \in 1..Len(days) |-> stats[i].avg_price]
    IN  [i \in 1..Len(days) |->
            [scrape_date |-> stats[i].scrape_date,
             avg_price |-> stats[i].avg_price,
             median_price |-> stats[i].median_price,
             min_price |-> stats[i].min_price,
             max_price |-> stats[i].max_price,
             products_count |-> stats[i].products_count,
             observations |-> stats[i].observations,
             avg_price_ma7 |-> RollingMean(avgs, i)]]

----------------------------------------------------------------------------
(* analysis.py: compute_top_drops *)

\* d["scrape_date"].nunique()
DistinctDays(frame) == Cardinality({r.scrape_date : r \in Range(frame)} \ {NaT})

\* The rows of one group of groupby("product_url"), in the order of the frame.
OfProduct(frame, url) == Pick(frame, {i \in 1..Len(frame) : frame[i].product_url = url})

\* GroupBy.first() / .last() on one column: the first / last value of the
\* group that is not missing.
FirstValue(values, missing) ==
    LET S == {i \in 1..Len(values) : values[i] # missing}
    IN  IF S = {} THEN missing ELSE values[Min(S)]

LastValue(values, missing) ==
    LET S == {i \in 1..Len(values) : values[i] # missing}
    IN  IF S = {} THEN missing ELSE values[Max(S)]

\* A drop row that compares the highest and the lowest price of the product.
DropRowExtremal(sorted, url) ==
    LET rows == OfProduct(sorted, url)
        prices == [i \in 1..Len(rows) |-> rows[i].price_value]
        dates == [i \in 1..Len(rows) |-> rows[i].scrape_date]
        price_first == Max(Range(prices))
        price_last == Min(Range(prices))
        drop_abs == price_first - price_last
    IN  [product_url |-> url,
         scrape_date_first |-> FirstValue(dates, NaT),
         price_first |-> price_first,
         scrape_date_last |-> LastValue(dates, NaT),
         price_last |-> price_last,
         drop_abs |-> drop_abs,
         drop_pct |-> Rat(drop_abs * 100, price_first)]

\* first.merge(last) for one product, with drop_abs and drop_pct.
DropRow(sorted, url) ==
    LET rows == OfProduct(sorted, url)
        prices == [i \in 1..Len(rows) |-> rows[i].price_value]
        dates == [i \in 1..Len(rows) |-> rows[i].scrape_date]
        price_first == FirstValue(prices, NaN)
        price_last == LastValue(prices, NaN)
        drop_abs == price_first - price_last
    IN  [product_url |-> url,
         scrape_date_first |-> FirstValue(dates, NaT),
         price_first |-> price_first,
         scrape_date_last |-> LastValue(dates, NaT),
         price_last |-> price_last,
         drop_abs |-> drop_abs,
         drop_pct |-> Rat(drop_abs * 100, price_first)]

\* A filter that also keeps the products whose price did not change.
StrictDropsOrEqual(frame) ==
    LET sorted == SortRows(frame)
        urls == SortedSeq({Rank(r.product_url) : r \in Range(frame)})
        merged == [i \in 1..Len(urls) |-> DropRow(sorted, TextOrder[urls[i]])]
    IN  Pick(merged, {i \in 1..Len(merged) : merged[i].drop_abs >= 0})

\* A filter that keeps every product whose price changed, risen or fallen.
StrictDropsAnyChange(frame) ==
    LET sorted == SortRows(frame)
        urls == SortedSeq({Rank(r.product_url) : r \in Range(frame)})
        merged == [i \in 1..Len(urls) |-> DropRow(sorted, TextOrder[urls[i]])]
    IN  Pick(merged, {i \in 1..Len(merged) : merged[i].drop_abs # 0})

\* The frame `out` after out[out["drop_abs"] > 0]: one row per product_url,
\* in the order of the URLs, strict drops only.
StrictDrops(frame) ==
    LET sorted == SortRows(frame)
        urls == SortedSeq({Rank(r.product_url) : r \in Range(frame)})
        merged == [i \in 1..Len(urls) |-> DropRow(sorted, TextOrder[urls[i]])]
    IN  Pick(merged, {i \in 1..Len(merged) : merged[i].drop_abs > 0})

\* A sort by ascending drop_pct.
SortedByDropPctAscending(frame) ==
    LET n == Len(frame)
        perms == {p \in [1..n -> 1..n] : \A i, j \in 1..n : i # j => p[i] # p[j]}
    IN  {[i \in 1..n |-> frame[p[i]]] : p \in
            {q \in perms : \A i \in 1..(n - 1) :
                ~RLess(frame[q[i + 1]].drop_pct, frame[q[i]].drop_pct)}}

\* sort_values("drop_pct", ascending=False): the sort is not stable, so rows
\* of equal drop_pct may come out in any order.
SortedByDropPct(frame) ==
    LET n == Len(frame)
        perms == {p \in [1..n -> 1..n] : \A i, j \in 1..n : i # j => p[i] # p[j]}
    IN  {[i \in 1..n |-> frame[p[i]]] : p \in
            {q \in perms : \A i \in 1..(n - 1) :
                ~RLess(frame[q[i]].drop_pct, frame[q[i + 1]].drop_pct)}}

\* DataFrame.head(n): the first n rows; for n < 0 all rows but the last -n.
HeadRows(frame, n) ==
    IF n >= 0 THEN SubSeq(frame, 1, Min({n, Len(frame)}))
    ELSE SubSeq(frame, 1, Max({0, Len(frame) + n}))

\* A compute_top_drops without the check of the number of days.
compute_top_dropsNoDayCheck(frame, top_n) ==
    {HeadRows(t, top_n) : t \in SortedByDropPct(StrictDrops(frame))}

\* compute_top_drops: the frames it can return.
compute_top_drops(frame, top_n) ==
    IF DistinctDays(frame) < 2 THEN {<<>>}
    ELSE {HeadRows(t, top_n) : t \in SortedByDropPct(StrictDrops(frame))}

----------------------------------------------------------------------------
(* analysis.py: one run of main() on a history file *)

TrackerIdle ==
    /\ file = <<>> /\ df_hist = <<>> /\ df_new = <<>> /\ df_out = <<>>
    /\ NoCalls

NoQuery == [category |-> "", start |-> NoDate, end |-> NoDate, top |-> 0]

InitAnalysis(files) ==
    /\ TrackerIdle
    /\ csv \in files
    /\ last_op = "start"
    /\ df = <<>> /\ d = <<>> /\ daily = <<>> /\ drops = <<>>
    /\ query = NoQuery
    /\ outcome = [raised |-> "", categories |-> <<>>]

trackerVars == <<file, df_hist, df_new, df_out, calls, prior>>

\* df = load_and_clean(args.csv)
LoadAndClean ==
    /\ last_op = "start"
    /\ df' = load_and_clean(csv)
    /\ last_op' = "loaded"
    /\ UNCHANGED <<trackerVars, csv, d, query, outcome, daily, drops>>

\* d = filter_df(df, args.category, args.start, args.end); a ValueError
\* ends the run.
FilterDf(categories, dates) ==
    /\ last_op = "loaded"
    /\ \E category \in categories, start \in dates, end \in dates :
         LET r == filter_df(df, category, start, end)
         IN  /\ query' = [query EXCEPT !.category = category,
                                       !.start = start, !.end = end]
             /\ outcome' = [raised |-> r.raised, categories |-> r.categories]
             /\ d' = r.d
             /\ last_op' = IF r.raised = "" THEN "filtered" ELSE "raised"
    /\ UNCHANGED <<trackerVars, csv, df, daily, drops>>

\* daily = compute_daily_stats(d)
ComputeDailyStats ==
    /\ last_op = "filtered"
    /\ daily' = compute_daily_stats(d)
    /\ last_op' = "daily"
    /\ UNCHANGED <<trackerVars, csv, df, d, query, outcome, drops>>

\* drops = compute_top_drops(d, top_n=args.top)
ComputeTopDrops(tops) ==
    /\ last_op = "daily"
    /\ \E top \in tops :
         /\ drops' \in compute_top_drops(d, top)
         /\ query' = [query EXCEPT !.top = top]
    /\ last_op' = "drops"
    /\ UNCHANGED <<trackerVars, csv, df, d, outcome, daily>>

\* Values of --top: the default 10 shows every drop of the model.
TopValues == {-1, 0, 1, 10}

----------------------------------------------------------------------------
(* History files with unusable values, one category *)

DirtyRow ==
    [category : {"GPU"},
     scrape_datetime_utc : {0, BadTs},
     product_url : {"", " ", " u1 "},
     price_value : {NaN, BadNum, 0, 10}]

InitClean == InitAnalysis(SeqsUpTo(DirtyRow, MaxCsvRows))

NextClean ==
    \/ LoadAndClean
    \/ FilterDf({"GPU"}, {NoDate})
    \/ ComputeDailyStats
    \/ ComputeTopDrops({10})

SpecClean == InitClean /\ [][NextClean]_vars

----------------------------------------------------------------------------
(* History files of two categories over three days *)

CategoryRow ==
    [category : {"GPU", " SSD "},
     scrape_datetime_utc : {0, SlotsPerDay, 2 * SlotsPerDay},
     product_url : {"u1", "u2"},
     price_value : {10}]

QueryCategories == {"GPU", "SSD", "Monitor"}
QueryDates == {NoDate, 1, 2}

InitFilter == InitAnalysis(SeqsUpTo(CategoryRow, MaxCsvRows))

NextFilter ==
    \/ LoadAndClean
    \/ FilterDf(QueryCategories, QueryDates)
    \/ ComputeDailyStats
    \/ ComputeTopDrops({10})

SpecFilter == InitFilter /\ [][NextFilter]_vars

----------------------------------------------------------------------------
(* History files as the tracker writes them: one category, rows in the     *)
(* order of the scrapes, each (product_url, scrape_datetime_utc) once      *)

MaxDays == 8        \* days of a history file with one observation a day

StatPrices == {10, 20, 40}
DayPrices == {10, 20}

\* The file with a row of price g[i] for every key keys[i] with a price;
\* g[i] = 0 stands for no row with the key.
GridFile(keys, g) ==
    Pick([i \in 1..Len(keys) |->
              [category |-> "GPU",
               scrape_datetime_utc |-> keys[i][1],
               product_url |-> keys[i][2],
               price_value |-> g[i]]],
         {i \in 1..Len(keys) : g[i] # 0})

GridFiles(keys, prices) ==
    {GridFile(keys, g) : g \in [1..Len(keys) -> prices \cup {0}]}

\* Product u1 at every instant, product u2 at the first and the last one.
StatKeys ==
    <<<<0, "u1">>, <<0, "u2">>>>
    \o [i \in 1..(MaxTs - 1) |-> <<i, "u1">>]
    \o <<<<MaxTs - 1, "u2">>>>

InitStats == InitAnalysis(GridFiles(StatKeys, StatPrices))

NextStats ==
    \/ LoadAndClean
    \/ FilterDf({"GPU"}, {NoDate})
    \/ ComputeDailyStats
    \/ ComputeTopDrops(TopValues)

SpecStats == InitStats /\ [][NextStats]_vars

\* One product, one instant a day.
DayKeys == [i \in 1..MaxDays |-> <<(i - 1) * SlotsPerDay, "u1">>]

InitDays == InitAnalysis(GridFiles(DayKeys, DayPrices))

NextDays ==
    \/ LoadAndClean
    \/ FilterDf({"GPU"}, {NoDate})
    \/ ComputeDailyStats
    \/ ComputeTopDrops({10})

SpecDays == InitDays /\ [][NextDays]_vars

----------------------------------------------------------------------------
(* compute_daily_stats and compute_top_drops called on a frame that did not *)
(* pass load_and_clean: two products, two days, prices that may be zero     *)

FreePrices == {0, 10, 20}

\* Each product at the first instant of the first day and at the last one.
FreeKeys ==
    <<<<0, "u1">>, <<MaxTs - 1, "u1">>, <<0, "u2">>, <<MaxTs - 1, "u2">>>>

FreeFrames ==
    {[i \in 1..Len(FreeKeys) |->
         CleanRow([category |-> "GPU",
                   scrape_datetime_utc |-> FreeKeys[i][1],
                   product_url |-> FreeKeys[i][2],
                   price_value |-> g[i]])] : g \in [1..Len(FreeKeys) -> FreePrices]}

InitFree ==
    /\ TrackerIdle
    /\ csv = <<>> /\ df = <<>>
    /\ d \in FreeFrames
    /\ last_op = "filtered"
    /\ daily = <<>> /\ drops = <<>>
    /\ query = NoQuery
    /\ outcome = [raised |-> "", categories |-> <<>>]

NextFree ==
    \/ ComputeDailyStats
    \/ ComputeTopDrops(TopValues)

SpecFree == InitFree /\ [][NextFree]_vars

----------------------------------------------------------------------------
(* Properties of analysis.py *)

Loaded == last_op # "start"

\* C5: every row load_and_clean returns has a parsed timestamp, a non-empty
\* trimmed product_url and a price that is present and above 0; has_price
\* is true exactly for the rows of the file whose price is a number above 0.
C5_CleanRows ==
    Loaded =>
        /\ \A i \in 1..Len(df) :
              /\ df[i].scrape_datetime_utc >= 0
              /\ df[i].scrape_date >= 0
              /\ df[i].product_url \notin {"", NA}
              /\ Strip(df[i].product_url) = df[i].product_url
              /\ df[i].price_value # NaN
              /\ df[i].price_value > 0
              /\ df[i].has_price
        /\ \A i \in 1..Len(csv) :
              CleanRow(read_csv(csv)[i]).has_price
                  <=> (csv[i].price_value \notin {NaN, BadNum} /\ csv[i].price_value > 0)

\* A file of a usable row and a row without a price above 0: only the
\* usable row is returned.
C5_Witness ==
    /\ last_op = "loaded"
    /\ Len(csv) = 2 /\ Len(df) = 1
    /\ \E i \in 1..2 : csv[i].price_value = 0 /\ csv[i].product_url = " u1 "
                       /\ csv[i].scrape_datetime_utc = 0
    /\ df[1].price_value = 10 /\ df[1].product_url = "u1"

Filtered == last_op \in {"filtered", "raised"}

RowsOfCategory == {i \in 1..Len(df) : df[i].category = query.category}

RowsOfQuery ==
    {i \in RowsOfCategory :
        /\ query.start # NoDate => df[i].scrape_date >= query.start
        /\ query.end # NoDate => df[i].scrape_date <= query.end}

\* C6: filter_df raises UnknownCategory, with the categories of the history,
\* exactly when the history has no row of the category; it raises the other
\* error, EmptyResultSet, when the category has rows and the date window
\* keeps none; otherwise it returns a non-empty frame.
C6_FilterErrors ==
    Filtered =>
        /\ outcome.raised = UnknownCategory <=> RowsOfCategory = {}
        /\ RowsOfCategory = {} =>
              /\ Range(outcome.categories) = {df[i].category : i \in 1..Len(df)} \ {""}
              /\ Len(outcome.categories) = Cardinality(Range(outcome.categories))
        /\ (RowsOfCategory # {} /\ RowsOfQuery = {}) =>
              /\ outcome.raised = EmptyResultSet
              /\ outcome.raised # UnknownCategory
        /\ RowsOfQuery # {} =>
              /\ outcome.raised = ""
              /\ last_op = "filtered"
              /\ d # <<>>
              /\ Range(d) = {df[i] : i \in RowsOfQuery}

\* The category has rows and the date window keeps none of them.
C6_Witness ==
    /\ last_op = "raised"
    /\ RowsOfCategory # {} /\ RowsOfQuery = {}
    /\ outcome.raised = EmptyResultSet

Aggregated == last_op \in {"daily", "drops"}

DaysOf(frame) == {frame[i].scrape_date : i \in 1..Len(frame)}

\* C7: compute_daily_stats returns one entry per day of the filtered set, in
\* strictly ascending order of the day; products_count is the number of
\* distinct product_url of the day and observations its number of rows, so
\* the observations sum to the size of the filtered set.
C7_DailyStats ==
    Aggregated =>
        /\ Len(daily) = Cardinality(DaysOf(d))
        /\ DaysOf(daily) = DaysOf(d)
        /\ \A i, j \in 1..Len(daily) :
              i < j => daily[i].scrape_date < daily[j].scrape_date
        /\ \A i \in 1..Len(daily) :
              LET rows == {k \in 1..Len(d) : d[k].scrape_date = daily[i].scrape_date}
              IN  /\ daily[i].products_count
                        = Cardinality({d[k].product_url : k \in rows})
                  /\ daily[i].observations = Cardinality(rows)
        /\ SumSeq([i \in 1..Len(daily) |-> daily[i].observations]) = Len(d)

\* Two days; on one a product was observed twice, on one two products.
C7_Witness ==
    /\ last_op = "daily"
    /\ Len(daily) >= 2
    /\ \E i \in 1..Len(daily) : daily[i].observations > daily[i].products_count
    /\ \E i \in 1..Len(daily) : daily[i].products_count = 2

RECURSIVE Product(_)
Product(s) == IF s = <<>> THEN 1 ELSE Head(s) * Product(Tail(s))

\* The entries lo..hi of the daily sequence: the sum of avg_price as a
\* numerator over the product of the denominators.
AvgDens(lo, hi) == [k \in 1..(hi - lo + 1) |-> daily[lo + k - 1].avg_price.den]
AvgSum(lo, hi) ==
    SumSeq([k \in 1..(hi - lo + 1) |->
               daily[lo + k - 1].avg_price.num
                   * (Product(AvgDens(lo, hi)) \div daily[lo + k - 1].avg_price.den)])

\* C8: at entry i, avg_price_ma7 is the mean of avg_price over the entries
\* max(1, i-6)..i of the sequence, from the first entry on; when avg_price
\* is the same at every entry, avg_price_ma7 equals it at every entry.
C8_MovingAverage ==
    Aggregated =>
        /\ \A i \in 1..Len(daily) :
              LET lo == IF i - 6 < 1 THEN 1 ELSE i - 6
                  n == i - lo + 1
                  ma == daily[i].avg_price_ma7
              IN  /\ RFinite(ma)
                  /\ ma.num * n * Product(AvgDens(lo, i)) = AvgSum(lo, i) * ma.den
        /\ (\A i \in 1..Len(daily) : daily[i].avg_price = daily[1].avg_price)
              => \A i \in 1..Len(daily) : daily[i].avg_price_ma7 = daily[1].avg_price

\* Eight entries: the window of the last one leaves the first entry out,
\* and the first entry has another average than the second.
C8_Witness ==
    /\ last_op = "daily"
    /\ Len(daily) = 8
    /\ daily[1].avg_price # daily[2].avg_price
    /\ daily[8].avg_price_ma7 # daily[7].avg_price_ma7

\* C9: when every observation of the filtered set falls on one calendar
\* day, compute_top_drops returns an empty frame for every top_n.
C9_SingleDayNoDrops ==
    (last_op = "drops" /\ Cardinality(DaysOf(d)) = 1) => drops = <<>>

\* One day, a product observed twice on it with a falling price.
C9_Witness ==
    /\ last_op = "drops"
    /\ Cardinality(DaysOf(d)) = 1
    /\ query.top = 10
    /\ \E i, j \in 1..Len(d) :
          /\ d[i].product_url = d[j].product_url
          /\ d[i].scrape_datetime_utc < d[j].scrape_datetime_utc
          /\ d[i].price_value > d[j].price_value
    /\ drops = <<>>

Reverse(s) == [i \in 1..Len(s) |-> s[Len(s) + 1 - i]]
Rotate(s, k) == [i \in 1..Len(s) |-> s[((i + k - 1) % Len(s)) + 1]]
Reorderings(s) == {Reverse(s)} \cup {Rotate(s, k) : k \in 1..Len(s)}

\* C10: compute_top_drops gives at most one row per product_url; its
\* price_first and price_last are the prices of the product's observations
\* with the earliest and the latest timestamp of the filtered set, in
\* whatever order the rows of the set come.
C10_FirstLastByTime ==
    last_op = "drops" =>
        /\ \A i, j \in 1..Len(drops) :
              i # j => drops[i].product_url # drops[j].product_url
        /\ \A i \in 1..Len(drops) :
              LET rows == {k \in 1..Len(d) : d[k].product_url = drops[i].product_url}
                  first == CHOOSE k \in rows : \A m \in rows :
                               d[k].scrape_datetime_utc <= d[m].scrape_datetime_utc
                  last == CHOOSE k \in rows : \A m \in rows :
                               d[k].scrape_datetime_utc >= d[m].scrape_datetime_utc
              IN  /\ drops[i].price_first = d[first].price_value
                  /\ drops[i].price_last = d[last].price_value
        /\ \A e \in Reorderings(d) : StrictDrops(e) = StrictDrops(d)

\* A product with three observations whose lowest price is the middle one:
\* its row carries the first and the last price, not the lowest.
C10_Witness ==
    /\ last_op = "drops"
    /\ \E i \in 1..Len(drops) :
          \E k \in 1..Len(d) :
              /\ d[k].product_url = drops[i].product_url
              /\ d[k].price_value < drops[i].price_last
              /\ drops[i].price_first > drops[i].price_last

\* The observations of one product in the filtered set, and the ones with
\* its earliest and its latest timestamp.
ObsOf(url) == {k \in 1..Len(d) : d[k].product_url = url}
EarliestObs(url) ==
    CHOOSE k \in ObsOf(url) :
        \A m \in ObsOf(url) : d[k].scrape_datetime_utc <= d[m].scrape_datetime_utc
LatestObs(url) ==
    CHOOSE k \in ObsOf(url) :
        \A m \in ObsOf(url) : d[k].scrape_datetime_utc >= d[m].scrape_datetime_utc
UrlsOf(frame) == {r.product_url : r \in Range(frame)}

\* C11: every row compute_top_drops returns has drop_abs = price_first -
\* price_last > 0, and a product whose latest price is equal to or higher
\* than its earliest one, a product observed once included, has no row.
C11_StrictDropsOnly ==
    last_op = "drops" =>
        /\ \A i \in 1..Len(drops) :
              /\ drops[i].drop_abs = drops[i].price_first - drops[i].price_last
              /\ drops[i].drop_abs > 0
        /\ \A url \in UrlsOf(d) :
              d[LatestObs(url)].price_value >= d[EarliestObs(url)].price_value
                  => url \notin UrlsOf(drops)

\* Two days, every drop shown: one product fell and has a row, the other
\* was observed once and has none.
C11_Witness ==
    /\ last_op = "drops"
    /\ query.top = 10
    /\ drops # <<>>
    /\ \E url \in UrlsOf(d) :
          /\ Cardinality(ObsOf(url)) = 1
          /\ url \notin UrlsOf(drops)

\* The drop of a product of the filtered set, from its earliest and latest
\* observation: absolute and as a percentage of the earliest price.
DropAbsOf(url) == d[EarliestObs(url)].price_value - d[LatestObs(url)].price_value
DropPctOf(url) == Rat(DropAbsOf(url) * 100, d[EarliestObs(url)].price_value)

\* C12: drop_pct never increases along the rows compute_top_drops returns,
\* and no product with a strict drop that is left out has a drop_pct above
\* the one of a returned row.
C12_RankedPrefix ==
    last_op = "drops" =>
        /\ \A i, j \in 1..Len(drops) :
              i < j => ~RLess(drops[i].drop_pct, drops[j].drop_pct)
        /\ \A url \in UrlsOf(d) \ UrlsOf(drops) :
              DropAbsOf(url) > 0 =>
                  \A i \in 1..Len(drops) : ~RLess(drops[i].drop_pct, DropPctOf(url))

\* Two products fell by different percentages and --top 1 keeps one row:
\* the product left out fell by less.
C12_Witness ==
    /\ last_op = "drops"
    /\ query.top = 1
    /\ Len(drops) = 1
    /\ \E url \in UrlsOf(d) \ UrlsOf(drops) :
          /\ DropAbsOf(url) > 0
          /\ RLess(DropPctOf(url), drops[1].drop_pct)

\* C13: compute_top_drops returns at most top_n rows when top_n >= 1 and
\* no row at all when top_n <= 0, negative values included.
C13_TopNBound ==
    last_op = "drops" =>
        /\ query.top >= 1 => Len(drops) <= query.top
        /\ query.top <= 0 => drops = <<>>

\* C14: rows of equal drop_pct come by descending drop_abs and then by
\* ascending product_url, so the filtered set and top_n leave one possible
\* result.
C14_TieBreak ==
    last_op = "drops" =>
        /\ \A i, j \in 1..Len(drops) :
              (i < j /\ drops[i].drop_pct = drops[j].drop_pct) =>
                  \/ drops[i].drop_abs > drops[j].drop_abs
                  \/ /\ drops[i].drop_abs = drops[j].drop_abs
                     /\ Rank(drops[i].product_url) < Rank(drops[j].product_url)
        /\ \A e \in Reorderings(d) :
              compute_top_drops(e, query.top) = {drops}

\* C15: on a filtered set whose prices are not negative, no product whose
\* first price is zero has a row, and every row compute_top_drops returns
\* has price_first > 0 and a finite drop_pct with 0 < drop_pct <= 100.
C15_FinitePct ==
    last_op = "drops" =>
        /\ \A url \in UrlsOf(d) :
              d[EarliestObs(url)].price_value = 0 => url \notin UrlsOf(drops)
        /\ \A i \in 1..Len(drops) :
              /\ drops[i].price_first > 0
              /\ RFinite(drops[i].drop_pct)
              /\ RLess(Rat(0, 1), drops[i].drop_pct)
              /\ ~RLess(Rat(100, 1), drops[i].drop_pct)

\* One product went from zero to a positive price and has no row; the
\* other fell to zero and has a row with drop_pct = 100.
C15_Witness ==
    /\ last_op = "drops"
    /\ query.top = 10
    /\ \E url \in UrlsOf(d) :
          /\ d[EarliestObs(url)].price_value = 0
          /\ d[LatestObs(url)].price_value > 0
          /\ url \notin UrlsOf(drops)
    /\ \E i \in 1..Len(drops) :
          /\ drops[i].price_last = 0
          /\ drops[i].drop_pct = Rat(100, 1)

\* Both invocations have returned; they ran one after the other when the
\* second one read the file after the first one had written it.
BothReturned == calls # <<>> /\ Returned = Invocations
Serial == \E p \in Invocations : calls[p].loaded_after = 1
LastWriter == CHOOSE p \in Invocations : calls[p].saved_after = 1

\* The keys of a frame as the file holds them.
FileKeys(frame) == {Key(r) : r \in Range(to_csv(frame))}

\* C16: when two invocations of save_history_append run one after the
\* other, the file holds the keys of the prior history and of both
\* batches; when both load before either persists, the file is the one the
\* last writer alone would have left, whatever the other one wrote.
C16_SerialSafeInterleavedLost ==
    BothReturned =>
        /\ Serial =>
              FileKeys(prior) \cup FileKeys(calls[1].df_new)
                  \cup FileKeys(calls[2].df_new) \subseteq FileKeys(file)
        /\ ~Serial =>
              file = to_csv(Merge(load_history(prior), calls[LastWriter].df_new))

\* Both invocations loaded before either persisted, and the file holds no
\* row of the batch of one of them.
C16_Witness ==
    /\ BothReturned
    /\ ~Serial
    /\ \E p \in Invocations :
          /\ calls[p].df_new # <<>>
          /\ FileKeys(calls[p].df_new) \cap FileKeys(file) = {}

\* The invocations ran one after the other on a history that was not
\* empty, with batches of keys the history did not hold.
C16_SerialCase ==
    /\ BothReturned
    /\ Serial
    /\ prior # <<>>
    /\ Cardinality(FileKeys(file)) = 3

====
